---- MODULE Spec2Model ----
(***************************************************************************)
(* Model of the Web Server Launcher (main.py, src/ui/main_window.py,       *)
(* src/server/server_thread.py, src/utils/project_manager.py,              *)
(* src/utils/file_utils.py).                                               *)
(*                                                                         *)
(* Two threads of control are modelled: the Qt control (GUI) thread, which *)
(* runs one event handler at a time, and one worker QThread per server     *)
(* session.  A handler that blocks (Popen.wait, QThread.wait) is split at  *)
(* the blocking call; everything between two blocking calls is one step.   *)
(* The child "python3 -m http.server" process, the filesystem, the ports   *)
(* taken by other programs and the writability of the history file are     *)
(* the environment.                                                        *)
(***************************************************************************)
EXTENDS Integers, Sequences, FiniteSets, TLC

\* ---------------------------------------------------------------- bounds
MaxSessions == 2
MaxCount == 3
MaxN == 3
MaxBrowse == 1
MaxStops == 2

\* ------------------------------------------------------ program constants
DefaultPort == 8000
DisplayLimit == 10

\* The paths the history can hold, and those the user picks in the dialog.
Paths == {"/a", "/b", "/started"}
UiPaths == {"/a"}
NoDir == ""
Ports == {DefaultPort, DefaultPort + 1}
Sessions == 1..MaxSessions
None == 0
Kinds == {"missing", "dir", "file"}

VARIABLES
    \* WebServerLauncher fields and widgets
    server_thread, server_port, serve_directory, port_spinbox,
    start_btn, stop_btn, open_btn, info_text, msg_box, browser,
    recent_list,
    \* ServerThread objects, their children, the queued signal emissions
    thr, child, sigterm, mailbox, log, ctl,
    \* ProjectManager
    recent_projects, kind, raised, file, result, addCalls, fromEmpty, afterClear,
    \* what the last FileUtils.validate_folder and find_index_file returned
    valid, index_file,
    \* the way the application is being shut down, and the number of
    \* stop_server() calls made while no session handle was held
    exiting, stops,
    \* environment
    fs, listing, subdirs, extPorts, sockets, writable

uiVars == <<server_thread, server_port, serve_directory, port_spinbox,
            start_btn, stop_btn, open_btn, info_text, msg_box,
            browser, recent_list>>
thrVars == <<thr, child, sigterm, mailbox, log, ctl>>
storeVars == <<recent_projects, kind, raised, file, result, addCalls, fromEmpty,
               afterClear>>
inspVars == <<valid, index_file>>
appVars == <<exiting, stops>>
envVars == <<fs, listing, subdirs, extPorts, sockets, writable>>
vars == <<uiVars, thrVars, storeVars, inspVars, appVars, envVars>>

\* ------------------------------------------------------------ filesystem
Exists(p) == p # NoDir /\ fs[p] # "missing"
IsDir(p) == p # NoDir /\ fs[p] = "dir"

\* ---------------------------------------------------------------- FileUtils
\* An entry name is the sequence of the code points of its characters.
IndexHtml == <<105, 110, 100, 101, 120, 46, 104, 116, 109, 108>>    \* "index.html"
IndexHtm == <<105, 110, 100, 101, 120, 46, 104, 116, 109>>    \* "index.htm"
DefaultHtml == <<100, 101, 102, 97, 117, 108, 116, 46, 104, 116, 109, 108>>    \* "default.html"
HomeHtml == <<104, 111, 109, 101, 46, 104, 116, 109, 108>>    \* "home.html"
AboutHtml == <<97, 98, 111, 117, 116, 46, 104, 116, 109, 108>>    \* "about.html"
ZzzHtm == <<122, 122, 122, 46, 104, 116, 109>>    \* "zzz.htm"
ZedUpperHtml == <<90, 101, 100, 46, 72, 84, 77, 76>>    \* "Zed.HTML"
NotesTxt == <<110, 111, 116, 101, 115, 46, 116, 120, 116>>    \* "notes.txt"
DotHtml == <<46, 104, 116, 109, 108>>    \* ".html"
DotHtm == <<46, 104, 116, 109>>    \* ".htm"
NoName == <<>>    \* None
Names == {IndexHtml, IndexHtm, DefaultHtml, HomeHtml, AboutHtml, ZzzHtm,
          ZedUpperHtml, NotesTxt}

\* listing[d] is what directory d holds whenever d is a directory, and
\* subdirs[d] are those of its entries that are directories themselves; for
\* a path that is missing or a regular file os.path.exists(d/name) is false
\* and os.listdir(d) raises.
Entries(d) == IF IsDir(d) THEN listing[d] ELSE {}

\* validate_folder without the os.path.isdir test.
ValidateFolder_ExistsOnly(p) ==
    IF ~Exists(p) THEN <<FALSE, "Selected folder does not exist">>
    ELSE <<TRUE, "Folder is valid">>

\* validate_folder
ValidateFolder(p) ==
    IF ~Exists(p) THEN <<FALSE, "Selected folder does not exist">>
    ELSE IF ~IsDir(p) THEN <<FALSE, "Selected path is not a directory">>
    ELSE <<TRUE, "Folder is valid">>

\* str.lower() on ASCII, and str.endswith
LowerChar(c) == IF c \in 65..90 THEN c + 32 ELSE c
Lower(name) == [i \in 1..Len(name) |-> LowerChar(name[i])]
EndsWith(name, suffix) ==
    /\ Len(name) >= Len(suffix)
    /\ SubSeq(name, Len(name) - Len(suffix) + 1, Len(name)) = suffix

\* The test without lower().
IsHtmlItem_NoLower(item) == EndsWith(item, DotHtml) \/ EndsWith(item, DotHtm)

\* item.lower().endswith(('.html', '.htm'))
IsHtmlItem(item) == EndsWith(Lower(item), DotHtml) \/ EndsWith(Lower(item), DotHtm)

\* The order of Python strings: by code point at the first difference, a
\* proper prefix first.
StrLess(a, b) ==
    LET n == IF Len(a) < Len(b) THEN Len(a) ELSE Len(b)
        diff == {i \in 1..n : a[i] # b[i]}
    IN  IF diff = {} THEN Len(a) < Len(b)
        ELSE LET k == CHOOSE i \in diff : \A j \in diff : i <= j
             IN  a[k] < b[k]

\* html_files.sort(): the items in ascending order.
RECURSIVE SortedNames(_)
SortedNames(items) ==
    IF items = {} THEN <<>>
    ELSE LET least == CHOOSE e \in items : \A f \in items \ {e} : StrLess(e, f)
         IN  <<least>> \o SortedNames(items \ {least})

\* find_index_file: index_files, in priority order
IndexFiles == <<IndexHtml, IndexHtm, DefaultHtml, HomeHtml>>

\* find_index_file on a directory with these entries: the first of
\* index_files that exists, else the first of the sorted HTML items, else None.
FindIndexFile(entries) ==
    LET found == {i \in 1..Len(IndexFiles) : IndexFiles[i] \in entries}
        html_files == SortedNames({item \in entries : IsHtmlItem(item)})
    IN  IF found # {}
        THEN IndexFiles[CHOOSE i \in found : \A j \in found : i <= j]
        ELSE IF html_files # <<>> THEN html_files[1]
        ELSE NoName

\* A call of FileUtils.validate_folder(p)
CallValidateFolder(p) ==
    /\ valid' = ValidateFolder(p)
    /\ UNCHANGED <<uiVars, thrVars, storeVars, envVars, index_file, appVars>>

\* A call of FileUtils.find_index_file(d)
CallFindIndexFile(d) ==
    /\ index_file' = FindIndexFile(Entries(d))
    /\ UNCHANGED <<uiVars, thrVars, storeVars, envVars, valid, appVars>>

\* An entry of directory d is created (as a regular file) or removed.
EntryChange(d, name) ==
    /\ listing' = [listing EXCEPT ![d] = IF name \in @ THEN @ \ {name} ELSE @ \cup {name}]
    /\ subdirs' = [subdirs EXCEPT ![d] = @ \ {name}]
    /\ UNCHANGED <<uiVars, thrVars, storeVars, inspVars, appVars, fs, extPorts,
                   sockets, writable>>

\* An entry of directory d is replaced: a regular file by a directory of
\* the same name, or a directory by a regular file.
EntryKindChange(d, name) ==
    /\ name \in listing[d]
    /\ subdirs' = [subdirs EXCEPT ![d] = IF name \in @ THEN @ \ {name} ELSE @ \cup {name}]
    /\ UNCHANGED <<uiVars, thrVars, storeVars, inspVars, appVars, fs, listing, extPorts,
                   sockets, writable>>

\* The name of this path contains the word "started".
NameHasStarted(p) == p = "/started"

\* ------------------------------------------------------------------ ports
\* A port is held by another program, by the http.server child of a
\* session, or by a socket of the launcher itself (sockets).
PortHeld(p) ==
    \/ p \in extPorts
    \/ p \in sockets
    \/ \E s \in Sessions : child[s] = "serving" /\ thr[s].port = p

\* FileUtils.is_port_available: s.bind(('localhost', port)) succeeds on a
\* port nobody holds and raises OSError otherwise ...
IsPortAvailable(p) == ~PortHeld(p)

\* The probe with a socket that is never closed.
AfterProbe_NoClose(held, p) == IF IsPortAvailable(p) THEN held \cup {p} ELSE held

\* ... and "with socket.socket(...) as s" closes the socket on both ways
\* out: the launcher's bound sockets after the probe of port p.
AfterProbe(held, p) == held

\* ---------------------------------------------------------- ProjectManager
\* recent_projects is a Python dict: a sequence of <<path, count>> items in
\* insertion order, no path twice.  The history file is absent, unparseable,
\* or holds the JSON text of such a dict.
Keys(m) == {m[i][1] : i \in 1..Len(m)}
HasKey(m, p) == p \in Keys(m)
CountOf(m, p) == IF HasKey(m, p) THEN m[CHOOSE i \in 1..Len(m) : m[i][1] = p][2] ELSE 0

NoFile == [kind |-> "absent", data |-> <<>>]
CorruptFile == [kind |-> "corrupt", data |-> <<>>]

\* json.dump writes the items in the dict's order, each key as a JSON string
\* and each count as its decimal digits; json.load reads them back.
RECURSIVE Digits(_)
Digits(n) == IF n < 10 THEN <<n>> ELSE Digits(n \div 10) \o <<n % 10>>

RECURSIVE Number(_)
Number(d) ==
    IF Len(d) = 1 THEN d[1]
    ELSE 10 * Number(SubSeq(d, 1, Len(d) - 1)) + d[Len(d)]

JsonDump(m) == [i \in 1..Len(m) |-> <<m[i][1], Digits(m[i][2])>>]
JsonLoad(text) == [i \in 1..Len(text) |-> <<text[i][1], Number(text[i][2])>>]

JsonFile(m) == [kind |-> "json", data |-> JsonDump(m)]

\* A file that cannot be opened for reading, and files whose text is JSON
\* but not a JSON object: a list such as [] and a number such as 0.
UnreadableFile == [kind |-> "unreadable", data |-> <<>>]
ListFile == [kind |-> "list", data |-> <<>>]
NumberFile == [kind |-> "number", data |-> <<>>]

\* load_recent_projects: a missing, unreadable or unparseable file gives {};
\* otherwise whatever json.load returns.  The items of the object returned ...
LoadRecentProjects(f) == IF f.kind = "json" THEN JsonLoad(f.data) ELSE <<>>

\* ... and its Python type: json.load gives a list for [] and an int for 0.
LoadedType(f) == IF f.kind \in {"list", "number"} THEN f.kind ELSE "dict"

\* load_recent_projects: the exception it lets escape ("except Exception: pass").
LoadError(f) == "none"

\* save_recent_projects: open(..., 'w') and json.dump; a failure is swallowed
\* and leaves the file as it was.
SaveRecentProjects(f, m, w) == IF w THEN JsonFile(m) ELSE f

\* save_recent_projects without its try/except.
SaveError_NoExcept(w) == IF w THEN "none" ELSE "OSError"

\* save_recent_projects: the exception it lets escape ("except Exception: pass").
SaveError(w) == "none"

\* The dict update with "= 1" in both branches.
AddCount_AlwaysOne(m, p) ==
    IF HasKey(m, p)
    THEN [i \in 1..Len(m) |-> IF m[i][1] = p THEN <<p, 1>> ELSE m[i]]
    ELSE Append(m, <<p, 1>>)

\* The update without the membership test: always a new item.
AddCount_Duplicate(m, p) == Append(m, <<p, 1>>)

\* add_recent_project, the dict update: += 1, or a new key at the end.
AddCount(m, p) ==
    IF HasKey(m, p)
    THEN [i \in 1..Len(m) |-> IF m[i][1] = p THEN <<p, m[i][2] + 1>> ELSE m[i]]
    ELSE Append(m, <<p, 1>>)

\* sorted(items, key=count, reverse=True): stable, equal counts keep the
\* dict's insertion order.
InsertDesc(s, e) ==
    LET k == Cardinality({i \in 1..Len(s) : s[i][2] >= e[2]})
    IN  SubSeq(s, 1, k) \o <<e>> \o SubSeq(s, k + 1, Len(s))

RECURSIVE SortedItems(_)
SortedItems(m) ==
    IF m = <<>> THEN <<>>
    ELSE InsertDesc(SortedItems(SubSeq(m, 1, Len(m) - 1)), m[Len(m)])

\* The sorted items without the [:max_count] slice.
TopSlice_NoLimit(m, n) == SortedItems(m)

\* sorted_projects[:max_count]
TopSlice(m, n) ==
    LET s == SortedItems(m)
    IN  SubSeq(s, 1, IF n < Len(s) THEN n ELSE Len(s))

\* get_sorted_projects: the items of the slice whose path exists ...
ValidProjects(m, n, f) ==
    LET Keep(e) == f[e[1]] # "missing"
    IN  SelectSeq(TopSlice(m, n), Keep)

\* ... and the dict after the del of the others.
AfterCleanup(m, n, f) ==
    LET top == TopSlice(m, n)
        Keep(e) == ~(f[e[1]] = "missing" /\ \E i \in 1..Len(top) : top[i] = e)
    IN  SelectSeq(m, Keep)

\* get_sorted_projects without its save.
CleanupSaves_Never(m, n, f) == FALSE

\* "if len(valid_projects) != len(sorted_projects[:max_count])"
CleanupSaves(m, n, f) == Len(ValidProjects(m, n, f)) # Len(TopSlice(m, n))

\* The store as a value [m, t, err, f, r, calls, pure]: the items and the
\* Python type of self.recent_projects, the exception the last call let
\* escape, the file, what the last call returned (<<>> for add and clear,
\* which return nothing, and for a call that raised), and the history of the
\* calls made since the dict was last empty (calls[p] = number of add calls
\* for p; pure = only add calls and get_sorted_projects calls that dropped
\* nothing were made; ac = "cleared" right after clear_recent_projects,
\* "listed" after get_sorted_projects calls that followed it, "no" otherwise).
ZeroCalls == [p \in Paths |-> 0]

\* add_recent_project: on a list or an int, "in" or the item assignment
\* raises TypeError before anything is changed or saved.
StAdd(st, p, w) ==
    LET m2 == AddCount(st.m, p)
    IN  IF st.t # "dict"
        THEN [st EXCEPT !.err = "TypeError", !.r = <<>>]
        ELSE [st EXCEPT !.m = m2, !.f = SaveRecentProjects(st.f, m2, w), !.r = <<>>,
                        !.err = SaveError(w), !.ac = "no",
                        !.calls = IF st.pure THEN [st.calls EXCEPT ![p] = @ + 1] ELSE ZeroCalls]

\* get_sorted_projects: a list or an int has no items().
StGetSorted(st, n, f, w) ==
    LET m2 == AfterCleanup(st.m, n, f)
        saves == CleanupSaves(st.m, n, f)
    IN  IF st.t # "dict"
        THEN [st EXCEPT !.err = "AttributeError", !.r = <<>>]
        ELSE [st EXCEPT !.m = m2,
                        !.f = IF saves THEN SaveRecentProjects(st.f, m2, w) ELSE st.f,
                        !.r = ValidProjects(st.m, n, f),
                        !.err = IF saves THEN SaveError(w) ELSE "none",
                        !.ac = IF st.ac = "no" THEN "no" ELSE "listed",
                        !.pure = (m2 = <<>>) \/ (st.pure /\ m2 = st.m),
                        !.calls = IF m2 # <<>> /\ st.pure /\ m2 = st.m
                                  THEN st.calls ELSE ZeroCalls]

\* clear_recent_projects without the call of save_recent_projects.
StClear_NoSave(st, w) ==
    [st EXCEPT !.m = <<>>, !.t = "dict", !.r = <<>>, !.err = "none", !.ac = "cleared",
               !.pure = TRUE, !.calls = ZeroCalls]

\* clear_recent_projects: self.recent_projects = {}, whatever it was.
StClear(st, w) ==
    [st EXCEPT !.m = <<>>, !.t = "dict", !.f = SaveRecentProjects(st.f, <<>>, w),
               !.r = <<>>, !.err = SaveError(w), !.ac = "cleared",
               !.pure = TRUE, !.calls = ZeroCalls]

Store == [m |-> recent_projects, t |-> kind, err |-> raised, f |-> file,
          r |-> result, calls |-> addCalls, pure |-> fromEmpty, ac |-> afterClear]

SetStore(st) ==
    /\ recent_projects' = st.m
    /\ kind' = st.t
    /\ raised' = st.err
    /\ file' = st.f
    /\ result' = st.r
    /\ addCalls' = st.calls
    /\ fromEmpty' = st.pure
    /\ afterClear' = st.ac

\* ProjectManager.add_recent_project(p)
AddRecentProject(p) ==
    /\ ctl = "idle"
    /\ CountOf(recent_projects, p) < MaxCount
    /\ SetStore(StAdd(Store, p, writable))
    /\ UNCHANGED <<uiVars, thrVars, envVars>>
    /\ UNCHANGED <<inspVars, appVars>>

\* ProjectManager.get_sorted_projects(n)
GetSortedProjects(n) ==
    /\ ctl = "idle"
    /\ SetStore(StGetSorted(Store, n, fs, writable))
    /\ UNCHANGED <<uiVars, thrVars, envVars>>
    /\ UNCHANGED <<inspVars, appVars>>

\* ProjectManager.clear_recent_projects()
ClearRecentProjects ==
    /\ ctl = "idle"
    /\ SetStore(StClear(Store, writable))
    /\ UNCHANGED <<uiVars, thrVars, envVars>>
    /\ UNCHANGED <<inspVars, appVars>>

\* ------------------------------------------------------------ environment
\* A path is created, deleted or replaced on disk.
FsChange(p, k) ==
    /\ fs[p] # k
    /\ fs' = [fs EXCEPT ![p] = k]
    /\ UNCHANGED <<uiVars, thrVars, storeVars, listing, subdirs, extPorts, sockets,
                   writable>>
    /\ UNCHANGED <<inspVars, appVars>>

\* The history file becomes unwritable (permissions, full disk) or writable.
SetWritable(w) ==
    /\ writable # w
    /\ writable' = w
    /\ UNCHANGED <<uiVars, thrVars, storeVars, fs, listing, subdirs, extPorts, sockets>>
    /\ UNCHANGED <<inspVars, appVars>>

\* Another program binds a free port, or releases the one it holds.
ExtPortChange(p) ==
    /\ IF p \in extPorts THEN extPorts' = extPorts \ {p}
       ELSE ~PortHeld(p) /\ extPorts' = extPorts \cup {p}
    /\ UNCHANGED <<uiVars, thrVars, storeVars, fs, listing, subdirs, sockets, writable>>
    /\ UNCHANGED <<inspVars, appVars>>

\* ------------------------------------------------------------ ServerThread
\* thr[s]: the ServerThread object of session s.  pc is the worker's place in
\* run(): "none" (object not created), "run" (started, before Popen),
\* "assign" (Popen returned, self.server_process not yet stored), "emit",
\* "wait" (in server_process.wait()), "finished".
NoThread == [directory |-> NoDir, port |-> None, server_process |-> FALSE, pc |-> "none"]
NewThread(d, p) == [directory |-> d, port |-> p, server_process |-> FALSE, pc |-> "run"]

\* A status_update emission: kind names the emitting statement, says_started
\* is the value of ("started" in message.lower()).
StartedMsg(s) == [sess |-> s, kind |-> "started", type |-> "success", says_started |-> TRUE]
StoppedMsg(s) == [sess |-> s, kind |-> "stopped", type |-> "info", says_started |-> FALSE]

\* The except branch emitting the message of the try branch.
ErrorMsg_AsStarted(s, hasWord) ==
    [sess |-> s, kind |-> "started", type |-> "success", says_started |-> TRUE]

\* run(), except: status_update.emit("Error starting server: ...", "error")
ErrorMsg(s, hasWord) == [sess |-> s, kind |-> "error", type |-> "error", says_started |-> hasWord]

\* run(): subprocess.Popen(cmd, cwd=self.directory, ...) raises when cwd is
\* not a directory (the message quotes the path), and may raise for reasons
\* of the system (no python3, no process slot); otherwise the child exists.
WorkerPopen(s) ==
    /\ thr[s].pc = "run"
    /\ \/ /\ ~IsDir(thr[s].directory)
          /\ mailbox' = Append(mailbox, ErrorMsg(s, NameHasStarted(thr[s].directory)))
          /\ thr' = [thr EXCEPT ![s].pc = "finished"]
          /\ UNCHANGED child
       \/ /\ IsDir(thr[s].directory)
          /\ mailbox' = Append(mailbox, ErrorMsg(s, FALSE))
          /\ thr' = [thr EXCEPT ![s].pc = "finished"]
          /\ UNCHANGED child
       \/ /\ IsDir(thr[s].directory)
          /\ child' = [child EXCEPT ![s] = "spawned"]
          /\ thr' = [thr EXCEPT ![s].pc = "assign"]
          /\ UNCHANGED mailbox
    /\ UNCHANGED <<uiVars, storeVars, envVars, sigterm, log, ctl>>
    /\ UNCHANGED <<inspVars, appVars>>

\* run(): self.server_process = <the Popen object>
WorkerAssign(s) ==
    /\ thr[s].pc = "assign"
    /\ thr' = [thr EXCEPT ![s].server_process = TRUE, ![s].pc = "emit"]
    /\ UNCHANGED <<uiVars, storeVars, envVars, child, sigterm, mailbox, log, ctl>>
    /\ UNCHANGED <<inspVars, appVars>>

\* run(): status_update.emit("Server started on port ...", "success"), from
\* the worker thread: the call of the slot is queued to the control thread.
WorkerEmitStarted(s) ==
    /\ thr[s].pc = "emit"
    /\ mailbox' = Append(mailbox, StartedMsg(s))
    /\ thr' = [thr EXCEPT ![s].pc = "wait"]
    /\ UNCHANGED <<uiVars, storeVars, envVars, child, sigterm, log, ctl>>
    /\ UNCHANGED <<inspVars, appVars>>

\* run(): self.server_process.wait() returns once the child has exited;
\* run() then returns without emitting anything.
WorkerWaitReturns(s) ==
    /\ thr[s].pc = "wait"
    /\ child[s] = "exited"
    /\ thr' = [thr EXCEPT ![s].pc = "finished"]
    /\ UNCHANGED <<uiVars, storeVars, envVars, child, sigterm, mailbox, log, ctl>>
    /\ UNCHANGED <<inspVars, appVars>>

\* ------------------------------------------------- the http.server child
Alive(s) == child[s] \in {"spawned", "serving"}

\* The child binds its port, or exits when the port is taken.
ChildBind(s) ==
    /\ child[s] = "spawned"
    /\ child' = [child EXCEPT ![s] = IF PortHeld(thr[s].port) THEN "exited" ELSE "serving"]
    /\ UNCHANGED <<uiVars, storeVars, envVars, thr, sigterm, mailbox, log, ctl>>
    /\ UNCHANGED <<inspVars, appVars>>

\* SIGTERM, once sent, ends the child.
ChildTerminates(s) ==
    /\ Alive(s)
    /\ sigterm[s]
    /\ child' = [child EXCEPT ![s] = "exited"]
    /\ UNCHANGED <<uiVars, storeVars, envVars, thr, sigterm, mailbox, log, ctl>>
    /\ UNCHANGED <<inspVars, appVars>>

\* The child exits on its own (a crash, a kill from outside).
ChildExits(s) ==
    /\ Alive(s)
    /\ ~sigterm[s]
    /\ child' = [child EXCEPT ![s] = "exited"]
    /\ UNCHANGED <<uiVars, storeVars, envVars, thr, sigterm, mailbox, log, ctl>>
    /\ UNCHANGED <<inspVars, appVars>>

\* ------------------------------------------------------- WebServerLauncher
\* ctl is the control thread's place: "idle" (in the event loop), "dialog"
\* (inside msg_box.exec(), a nested event loop that delivers queued calls but
\* no input to the window), "stop_proc_wait" (inside Popen.wait() of
\* ServerThread.stop_server), "stop_thread_wait" (inside QThread.wait()).
NoOpen == [port |-> None, file |-> NoName, auto |-> FALSE]

\* handle_server_status, target_url: http://localhost:<port>, followed by
\* /<index_file> when find_index_file(directory) returns a name.
TargetUrl(port, directory) ==
    [port |-> port, file |-> FindIndexFile(Entries(directory)), auto |-> TRUE]
Pending(s) == \E i \in 1..Len(mailbox) : mailbox[i].sess = s
PendingIn(q, s) == \E i \in 1..Len(q) : q[i].sess = s

\* stop_server drops the only reference to the ServerThread object, which
\* ends it (and its Popen object); the emissions it queued stay queued.  The
\* record of what the listener handled for a session is kept until the last
\* of them is delivered.
Forget(f, s, init) == [f EXCEPT ![s] = init]

\* handle_server_status(message, status_type), the slot of status_update
\* (the status bar text is display only and is not modelled): on a message
\* that contains "started" the [SERVER ACTIVE] text and webbrowser.open of
\* the URL built from self.server_port and
\* find_index_file(self.serve_directory).
HandleServerStatus(msg) ==
    IF msg.says_started
    THEN /\ info_text' = "active"
         /\ browser' = TargetUrl(server_port, serve_directory)
    ELSE UNCHANGED <<info_text, browser>>

\* The control thread's event loop delivers the oldest queued emission.
DeliverStatus ==
    /\ ctl \in {"idle", "dialog"}
    /\ mailbox # <<>>
    /\ LET msg == Head(mailbox)
           s == msg.sess
           gone == s # server_thread /\ ~PendingIn(Tail(mailbox), s)
       IN  /\ HandleServerStatus(msg)
           /\ mailbox' = Tail(mailbox)
           /\ log' = IF gone THEN Forget(log, s, <<>>)
                     ELSE [log EXCEPT ![s] = Append(@, msg.kind)]
    /\ UNCHANGED <<server_thread, server_port, serve_directory, port_spinbox,
                   start_btn, stop_btn, open_btn, msg_box, recent_list,
                   thr, child, sigterm, ctl, storeVars, envVars>>
    /\ UNCHANGED <<inspVars, appVars>>

\* start_server, the three checks before anything is assigned.
StartChecks(dir, port) ==
    IF dir = NoDir THEN "select_folder"
    ELSE IF ~Exists(dir) THEN "not_exist"
    ELSE IF ~IsPortAvailable(port) THEN "port_in_use"
    ELSE "ok"

\* The assignment of self.server_port placed before the checks.
NewServerPort_BeforeChecks(verdict) == port_spinbox

\* start_server: self.server_port = self.port_spinbox.value(), after the checks.
NewServerPort(verdict) == IF verdict = "ok" THEN port_spinbox ELSE server_port

\* start_server without start_btn.setEnabled(False).
ButtonsAfterStart_StartEnabled == <<TRUE, TRUE, TRUE>>

\* start_server: <<start_btn, stop_btn, open_btn>> set at the end.
ButtonsAfterStart == <<FALSE, TRUE, TRUE>>

\* The buttons set without the call of stop_btn.setEnabled.
SetButtons_NoStop(b) ==
    /\ start_btn' = b[1]
    /\ stop_btn' = stop_btn
    /\ open_btn' = b[3]

\* start_btn.setEnabled, stop_btn.setEnabled, open_btn.setEnabled
SetButtons(b) ==
    /\ start_btn' = b[1]
    /\ stop_btn' = b[2]
    /\ open_btn' = b[3]

Free(s) == thr[s].pc = "none" /\ ~Pending(s)

\* start_server, the slot of start_btn.clicked.  A rejected start shows a
\* message box and returns when it is dismissed.
StartServer ==
    /\ ctl = "idle"
    /\ start_btn
    /\ LET verdict == StartChecks(serve_directory, port_spinbox)
       IN  /\ server_port' = NewServerPort(verdict)
           /\ IF verdict = "ok"
              THEN /\ \E s \in Sessions :
                        /\ Free(s)
                        /\ \A t \in Sessions : Free(t) => s <= t
                        /\ thr' = [thr EXCEPT ![s] = NewThread(serve_directory, server_port')]
                        /\ server_thread' = s
                   /\ SetButtons(ButtonsAfterStart)
                   /\ UNCHANGED <<msg_box, ctl>>
              ELSE /\ msg_box' = verdict
                   /\ ctl' = "dialog"
                   /\ UNCHANGED <<thr, server_thread, start_btn, stop_btn, open_btn>>
    /\ sockets' = IF serve_directory # NoDir /\ Exists(serve_directory)
                  THEN AfterProbe(sockets, port_spinbox) ELSE sockets
    /\ UNCHANGED <<serve_directory, port_spinbox, info_text, browser, recent_list,
                   child, sigterm, mailbox, log, storeVars, fs, listing, subdirs,
                   extPorts, writable>>
    /\ UNCHANGED <<inspVars, appVars>>

\* The buttons set without stop_btn.setEnabled(False).
ButtonsAfterStop_StopEnabled == <<TRUE, TRUE, FALSE>>

\* stop_server: <<start_btn, stop_btn, open_btn>> set at the end.
ButtonsAfterStop == <<TRUE, FALSE, FALSE>>

\* stop_server up to its first blocking call, or to its end when no handle
\* is held: ServerThread.stop_server reads self.server_process; when it is
\* set, terminate() (a signal only to a child that has not exited) and then
\* server_process.wait(); when it is None, straight to QThread.wait().
\* Without a handle only the buttons are set.
StopServerCall ==
    /\ IF server_thread # None
       THEN /\ IF thr[server_thread].server_process
               THEN /\ sigterm' = [sigterm EXCEPT ![server_thread] = @ \/ Alive(server_thread)]
                    /\ ctl' = "stop_proc_wait"
               ELSE /\ ctl' = "stop_thread_wait"
                    /\ UNCHANGED sigterm
            /\ UNCHANGED <<start_btn, stop_btn, open_btn, stops>>
       ELSE /\ SetButtons(ButtonsAfterStop)
            /\ stops' = stops + 1
            /\ UNCHANGED <<sigterm, ctl>>
    /\ UNCHANGED <<server_thread, server_port, serve_directory, port_spinbox,
                   info_text, browser, recent_list,
                   thr, child, mailbox, log, storeVars, envVars, inspVars>>

\* stop_server() called from the event loop, whatever the buttons show.
Stop ==
    /\ ctl = "idle"
    /\ StopServerCall
    /\ UNCHANGED <<msg_box, exiting>>

\* stop_server as the slot of stop_btn.clicked: the button is enabled.
StopServer ==
    /\ stop_btn
    /\ Stop

\* ServerThread.stop_server: server_process.wait() returns, then
\* status_update.emit("Server stopped", "info") from the control thread, where
\* the receiver lives: the slot runs inside the emit.
StopProcessWaitReturns ==
    /\ ctl = "stop_proc_wait"
    /\ child[server_thread] = "exited"
    /\ HandleServerStatus(StoppedMsg(server_thread))
    /\ log' = [log EXCEPT ![server_thread] = Append(@, "stopped")]
    /\ ctl' = "stop_thread_wait"
    /\ UNCHANGED <<server_thread, server_port, serve_directory, port_spinbox,
                   start_btn, stop_btn, open_btn, msg_box, recent_list,
                   thr, child, sigterm, mailbox, storeVars, envVars>>
    /\ UNCHANGED <<inspVars, appVars>>

\* stop_server: self.server_thread.wait() returns once run() has returned;
\* then the handle is dropped and the buttons are set.  stop_server returns
\* to the event loop, or to the signal handler or closeEvent that called it,
\* which go on to quit.
StopThreadWaitReturns ==
    /\ ctl = "stop_thread_wait"
    /\ thr[server_thread].pc = "finished"
    /\ LET s == server_thread
           gone == ~Pending(s)
       IN  /\ thr' = Forget(thr, s, NoThread)
           /\ child' = Forget(child, s, "none")
           /\ sigterm' = Forget(sigterm, s, FALSE)
           /\ log' = IF gone THEN Forget(log, s, <<>>) ELSE log
    /\ server_thread' = None
    /\ SetButtons(ButtonsAfterStop)
    /\ ctl' = IF exiting = "no" THEN "idle" ELSE "quit"
    /\ UNCHANGED <<server_port, serve_directory, port_spinbox, info_text, msg_box,
                   browser, recent_list, mailbox, storeVars, envVars>>
    /\ UNCHANGED <<inspVars, appVars>>

\* The user changes the port spin box.
SetPort(p) ==
    /\ ctl = "idle"
    /\ port_spinbox # p
    /\ port_spinbox' = p
    /\ UNCHANGED <<server_thread, server_port, serve_directory,
                   start_btn, stop_btn, open_btn, info_text, msg_box,
                   browser, recent_list, thrVars, storeVars, envVars>>
    /\ UNCHANGED <<inspVars, appVars>>

\* update_recent_projects_display: recent_list.clear(), then one item for
\* each entry of get_sorted_projects(10); when that call raises the list
\* stays empty.
ListOf(r) == [i \in 1..Len(r) |-> r[i][1]]
Refresh(st) == StGetSorted(st, DisplayLimit, fs, writable)

\* browse_folder: the dialog returns an existing directory p; it becomes the
\* serve directory, is added to the store, and the list is refreshed.
BrowseFolder(p) ==
    /\ ctl = "idle"
    /\ IsDir(p)
    /\ CountOf(recent_projects, p) < MaxCount
    /\ serve_directory' = p
    /\ LET st1 == StAdd(Store, p, writable)
           st == Refresh(st1)
       IN  IF st1.err # "none"
           THEN SetStore(st1) /\ UNCHANGED recent_list
           ELSE SetStore(st) /\ recent_list' = ListOf(st.r)
    /\ UNCHANGED <<server_thread, server_port, port_spinbox,
                   start_btn, stop_btn, open_btn, info_text, msg_box,
                   browser, thrVars, envVars>>
    /\ UNCHANGED <<inspVars, appVars>>

\* use_recent_project on item i of the list: an existing path becomes the
\* serve directory; for a path that is gone a message box is shown.
UseRecentProject(i) ==
    /\ ctl = "idle"
    /\ i \in 1..Len(recent_list)
    /\ IF Exists(recent_list[i])
       THEN /\ serve_directory' = recent_list[i]
            /\ UNCHANGED <<msg_box, ctl>>
       ELSE /\ msg_box' = "project_gone"
            /\ ctl' = "dialog"
            /\ UNCHANGED serve_directory
    /\ UNCHANGED <<server_thread, server_port, port_spinbox,
                   start_btn, stop_btn, open_btn, info_text, browser, recent_list,
                   thr, child, sigterm, mailbox, log, storeVars, envVars>>
    /\ UNCHANGED <<inspVars, appVars>>

\* The user dismisses the message box and the handler that showed it goes
\* on: start_server returns, use_recent_project refreshes the list.
DismissDialog ==
    /\ ctl = "dialog"
    /\ msg_box # "server_running"
    /\ ctl' = "idle"
    /\ msg_box' = "none"
    /\ IF msg_box = "project_gone"
       THEN LET st == Refresh(Store)
            IN  /\ SetStore(st)
                /\ recent_list' = ListOf(st.r)
       ELSE UNCHANGED <<recent_list, storeVars>>
    /\ UNCHANGED <<server_thread, server_port, serve_directory, port_spinbox,
                   start_btn, stop_btn, open_btn, info_text, browser,
                   thr, child, sigterm, mailbox, log, envVars>>
    /\ UNCHANGED <<inspVars, appVars>>

\* clear_recent_projects of the window, confirmed: clear, then refresh.
ClearHistory ==
    /\ ctl = "idle"
    /\ LET st1 == StClear(Store, writable)
           st == Refresh(st1)
       IN  IF st1.err # "none"
           THEN SetStore(st1) /\ UNCHANGED recent_list
           ELSE SetStore(st) /\ recent_list' = ListOf(st.r)
    /\ UNCHANGED <<server_thread, server_port, serve_directory, port_spinbox,
                   start_btn, stop_btn, open_btn, info_text, msg_box, browser,
                   thrVars, envVars>>
    /\ UNCHANGED <<inspVars, appVars>>

\* QThread.isRunning(): start() was called and run() has not returned.
IsRunning_Never(s) == FALSE

IsRunning(s) == thr[s].pc \notin {"none", "finished"}

\* "if self.server_thread:" is false: stop_server is not called.
SkipStop ==
    UNCHANGED <<server_thread, server_port, serve_directory, port_spinbox, info_text,
                browser, recent_list, start_btn, stop_btn, open_btn,
                thr, child, sigterm, mailbox, log, stops, storeVars, envVars, inspVars>>

\* exiting is "no" while the application runs, "signal" once the handler of
\* SIGINT/SIGTERM has run, "close" once closeEvent has accepted without a
\* question, "close_ask" while its question is shown, "close_stop" and
\* "close_keep" after the answers Yes and No.  ctl = "quit" when
\* QApplication.quit() was called or the window was closed.

\* signal_handler(sig, frame): stop_server() when a handle is held, then
\* QApplication.quit().  Python runs it on the control thread between two
\* handlers, or inside a message box.
SignalHandler ==
    /\ ctl \in {"idle", "dialog"}
    /\ exiting \in {"no", "close_ask"}
    /\ exiting' = "signal"
    /\ IF server_thread # None
       THEN StopServerCall
       ELSE ctl' = "quit" /\ SkipStop
    /\ UNCHANGED msg_box

\* closeEvent: with a handle whose thread is running the question "Stop it
\* before closing?" is shown; otherwise the event is accepted at once.
CloseEvent ==
    /\ ctl = "idle"
    /\ exiting = "no"
    /\ IF server_thread # None /\ IsRunning(server_thread)
       THEN /\ msg_box' = "server_running"
            /\ ctl' = "dialog"
            /\ exiting' = "close_ask"
       ELSE /\ ctl' = "quit"
            /\ exiting' = "close"
            /\ UNCHANGED msg_box
    /\ SkipStop

\* closeEvent, the answer: on Yes stop_server(), then event.accept() in
\* both cases.
CloseAnswer(yes) ==
    /\ ctl = "dialog"
    /\ msg_box = "server_running"
    /\ exiting = "close_ask"
    /\ msg_box' = "none"
    /\ exiting' = IF yes THEN "close_stop" ELSE "close_keep"
    /\ IF yes /\ server_thread # None
       THEN StopServerCall
       ELSE ctl' = "quit" /\ SkipStop

\* ------------------------------------------------------------ specifications
\* What the directories hold: nothing, or a conventional index file next to
\* another page in one and pages without a conventional name in the other.
NoListing == [p \in Paths |-> {}]

SampleListing ==
    [p \in Paths |-> IF p = "/a" THEN {IndexHtm, AboutHtml, NotesTxt}
                     ELSE IF p = "/b" THEN {AboutHtml, ZzzHtm}
                     ELSE {}]

UiInit ==
    /\ server_thread = None
    /\ server_port = DefaultPort
    /\ serve_directory = NoDir
    /\ port_spinbox = DefaultPort
    /\ start_btn = TRUE
    /\ stop_btn = FALSE
    /\ open_btn = FALSE
    /\ info_text = "ready"
    /\ msg_box = "none"
    /\ browser = NoOpen
    /\ thr = [s \in Sessions |-> NoThread]
    /\ child = [s \in Sessions |-> "none"]
    /\ sigterm = [s \in Sessions |-> FALSE]
    /\ mailbox = <<>>
    /\ log = [s \in Sessions |-> <<>>]
    /\ ctl = "idle"
    /\ extPorts = {}
    /\ sockets = {}
    /\ writable = TRUE
    /\ valid = <<FALSE, "">>
    /\ index_file = NoName
    /\ exiting = "no"
    /\ stops = 0
    /\ subdirs = [p \in Paths |-> {}]

\* The application on its first run: no history file; main() has shown the
\* window and refreshed the (empty) recent list.
Init ==
    /\ UiInit
    /\ listing = NoListing
    /\ fs \in {f \in [Paths -> Kinds] : \A p \in Paths \ UiPaths : f[p] = "missing"}
    /\ file = NoFile
    /\ recent_projects = LoadRecentProjects(file)
    /\ kind = LoadedType(file)
    /\ raised = LoadError(file)
    /\ result = <<>>
    /\ afterClear = "no"
    /\ recent_list = <<>>
    /\ addCalls = ZeroCalls
    /\ fromEmpty = TRUE

\* The server lifecycle: the handlers that start and stop a session and
\* choose what to serve (at most MaxBrowse times), the worker, the child and
\* the environment they read.
Next ==
    \/ StartServer
    \/ StopServer
    \/ StopProcessWaitReturns
    \/ StopThreadWaitReturns
    \/ DeliverStatus
    \/ DismissDialog
    \/ \E p \in Ports : SetPort(p)
    \/ \E p \in UiPaths : CountOf(recent_projects, p) < MaxBrowse /\ BrowseFolder(p)
    \/ \E s \in Sessions : WorkerPopen(s)
    \/ \E s \in Sessions : WorkerAssign(s)
    \/ \E s \in Sessions : WorkerEmitStarted(s)
    \/ \E s \in Sessions : WorkerWaitReturns(s)
    \/ \E s \in Sessions : ChildBind(s)
    \/ \E s \in Sessions : ChildTerminates(s)
    \/ \E s \in Sessions : ChildExits(s)
    \/ \E p \in UiPaths, k \in Kinds : FsChange(p, k)
    \/ \E p \in Ports : ExtPortChange(p)

Spec == Init /\ [][Next]_vars

\* The ProjectManager on its own: any history file a former run can have
\* left, then any calls of its three operations while paths come and go and
\* go on disk.
Mappings ==
    {<<>>} \cup {<<<<p, c>>>> : p \in Paths, c \in 1..MaxCount}

StoreInit ==
    /\ UiInit
    /\ listing = NoListing
    /\ fs \in [Paths -> {"missing", "dir"}]
    /\ file \in {NoFile, CorruptFile} \cup {JsonFile(m) : m \in Mappings}
    /\ recent_projects = LoadRecentProjects(file)
    /\ kind = LoadedType(file)
    /\ raised = LoadError(file)
    /\ result = <<>>
    /\ afterClear = "no"
    /\ recent_list = <<>>
    /\ addCalls = ZeroCalls
    /\ fromEmpty = (recent_projects = <<>>)

StoreNext ==
    \/ \E p \in Paths : AddRecentProject(p)
    \/ \E n \in 0..MaxN : GetSortedProjects(n)
    \/ ClearRecentProjects
    \/ \E p \in Paths, k \in {"missing", "dir"} : FsChange(p, k)

StoreSpec == StoreInit /\ [][StoreNext]_vars

\* FileUtils on its own: validate_folder and find_index_file called on a
\* path that is missing, a file or a directory whose entries come and go.
InspectNext ==
    \/ \E p \in UiPaths : CallValidateFolder(p)
    \/ \E d \in UiPaths : CallFindIndexFile(d)
    \/ \E d \in UiPaths, name \in Names : EntryChange(d, name)
    \/ \E p \in UiPaths, k \in Kinds : FsChange(p, k)

InspectSpec == Init /\ [][InspectNext]_vars

\* find_index_file on a directory whose entries are regular files or
\* directories: a few names, each absent, a file or a directory.
KindNames == {IndexHtml, HomeHtml, AboutHtml, NotesTxt}

KindNext ==
    \/ \E d \in UiPaths : CallFindIndexFile(d)
    \/ \E d \in UiPaths, name \in KindNames : EntryChange(d, name)
    \/ \E d \in UiPaths, name \in KindNames : EntryKindChange(d, name)
    \/ \E p \in UiPaths, k \in Kinds : FsChange(p, k)

KindSpec == Init /\ [][KindNext]_vars

\* The window in a later run: the history of a former run lists two
\* projects, main() has shown them, and the user picks among them, sets the
\* port, starts and stops.
FormerRun == <<<<"/a", 2>>, <<"/b", 1>>>>

OpenInit ==
    /\ UiInit
    /\ listing = SampleListing
    /\ fs = [p \in Paths |-> IF HasKey(FormerRun, p) THEN "dir" ELSE "missing"]
    /\ file = JsonFile(FormerRun)
    /\ recent_projects = LoadRecentProjects(file)
    /\ kind = LoadedType(file)
    /\ raised = LoadError(file)
    /\ result = SortedItems(FormerRun)
    /\ afterClear = "no"
    /\ recent_list = ListOf(result)
    /\ addCalls = ZeroCalls
    /\ fromEmpty = FALSE

OpenNext ==
    \/ StartServer
    \/ StopServer
    \/ StopProcessWaitReturns
    \/ StopThreadWaitReturns
    \/ DeliverStatus
    \/ DismissDialog
    \/ \E p \in Ports : SetPort(p)
    \/ \E i \in 1..Len(FormerRun) : UseRecentProject(i)
    \/ \E s \in Sessions : WorkerPopen(s)
    \/ \E s \in Sessions : WorkerAssign(s)
    \/ \E s \in Sessions : WorkerEmitStarted(s)
    \/ \E s \in Sessions : WorkerWaitReturns(s)
    \/ \E s \in Sessions : ChildBind(s)
    \/ \E s \in Sessions : ChildTerminates(s)
    \/ \E s \in Sessions : ChildExits(s)

OpenSpec == OpenInit /\ [][OpenNext]_vars

\* The ProjectManager and its history file: the file a former run or
\* another program can have left (absent, unreadable, not JSON, JSON that is
\* no object, a mapping), and saves that fail while the file is unwritable.
PersistPaths == {"/a", "/b"}

PersistInit ==
    /\ UiInit
    /\ listing = NoListing
    /\ fs \in {f \in [Paths -> {"missing", "dir"}] :
                 \A p \in Paths \ PersistPaths : f[p] = "missing"}
    /\ file \in {NoFile, CorruptFile, UnreadableFile, ListFile, NumberFile}
                 \cup {JsonFile(m) : m \in {x \in Mappings : Keys(x) \subseteq PersistPaths}}
    /\ recent_projects = LoadRecentProjects(file)
    /\ kind = LoadedType(file)
    /\ raised = LoadError(file)
    /\ result = <<>>
    /\ afterClear = "no"
    /\ recent_list = <<>>
    /\ addCalls = ZeroCalls
    /\ fromEmpty = (recent_projects = <<>>)

PersistNext ==
    \/ \E p \in PersistPaths : AddRecentProject(p)
    \/ \E n \in 0..MaxN : GetSortedProjects(n)
    \/ ClearRecentProjects
    \/ \E p \in PersistPaths, k \in {"missing", "dir"} : FsChange(p, k)
    \/ \E w \in BOOLEAN : SetWritable(w)

PersistSpec == PersistInit /\ [][PersistNext]_vars

\* The window's history handlers on their own, with a history file that can
\* become unwritable.
HistoryNext ==
    \/ \E p \in UiPaths : BrowseFolder(p)
    \/ \E i \in 1..Cardinality(UiPaths) : UseRecentProject(i)
    \/ DismissDialog
    \/ ClearHistory
    \/ \E p \in UiPaths, k \in Kinds : FsChange(p, k)
    \/ \E w \in BOOLEAN : SetWritable(w)

HistorySpec == Init /\ [][HistoryNext]_vars

\* The window with a history file that fails: at the start the file is
\* absent, unreadable, unparseable or holds the mapping of a former run, and
\* main() has refreshed the recent list; later saves fail while the file is
\* unwritable.  The user browses, reuses and clears the history, starts and
\* stops.
FailInit ==
    /\ UiInit
    /\ listing = NoListing
    /\ fs \in {f \in [Paths -> {"missing", "dir"}] :
                 \A p \in Paths \ UiPaths : f[p] = "missing"}
    /\ \E f0 \in {NoFile, UnreadableFile, CorruptFile}
                  \cup {JsonFile(<<<<p, 1>>>>) : p \in UiPaths} :
          LET st == Refresh([m |-> LoadRecentProjects(f0), t |-> LoadedType(f0),
                             err |-> LoadError(f0), f |-> f0, r |-> <<>>,
                             calls |-> ZeroCalls,
                             pure |-> LoadRecentProjects(f0) = <<>>, ac |-> "no"])
          IN  /\ recent_projects = st.m
              /\ kind = st.t
              /\ raised = st.err
              /\ file = st.f
              /\ result = st.r
              /\ addCalls = st.calls
              /\ fromEmpty = st.pure
              /\ afterClear = st.ac
              /\ recent_list = ListOf(st.r)

FailNext ==
    \/ \E p \in UiPaths : BrowseFolder(p)
    \/ \E i \in 1..Cardinality(UiPaths) : UseRecentProject(i)
    \/ DismissDialog
    \/ ClearHistory
    \/ StartServer
    \/ StopServer
    \/ StopProcessWaitReturns
    \/ StopThreadWaitReturns
    \/ DeliverStatus
    \/ \E s \in Sessions : WorkerPopen(s)
    \/ \E s \in Sessions : WorkerAssign(s)
    \/ \E s \in Sessions : WorkerEmitStarted(s)
    \/ \E s \in Sessions : WorkerWaitReturns(s)
    \/ \E s \in Sessions : ChildBind(s)
    \/ \E s \in Sessions : ChildTerminates(s)
    \/ \E p \in UiPaths, k \in {"missing", "dir"} : FsChange(p, k)
    \/ \E w \in BOOLEAN : SetWritable(w)

FailSpec == FailInit /\ [][FailNext]_vars

\* The window serving a directory whose path contains the word "started":
\* the user browses to it, starts and stops, while the path is a directory,
\* is replaced by a file or is deleted.
NamedPaths == {"/started"}

NamedInit ==
    /\ UiInit
    /\ listing = NoListing
    /\ fs \in {f \in [Paths -> Kinds] : \A p \in Paths \ NamedPaths : f[p] = "missing"}
    /\ file = NoFile
    /\ recent_projects = LoadRecentProjects(file)
    /\ kind = LoadedType(file)
    /\ raised = LoadError(file)
    /\ result = <<>>
    /\ afterClear = "no"
    /\ recent_list = <<>>
    /\ addCalls = ZeroCalls
    /\ fromEmpty = TRUE

NamedNext ==
    \/ StartServer
    \/ StopServer
    \/ StopProcessWaitReturns
    \/ StopThreadWaitReturns
    \/ DeliverStatus
    \/ DismissDialog
    \/ \E p \in NamedPaths : CountOf(recent_projects, p) < MaxBrowse /\ BrowseFolder(p)
    \/ \E s \in Sessions : WorkerPopen(s)
    \/ \E s \in Sessions : WorkerAssign(s)
    \/ \E s \in Sessions : WorkerEmitStarted(s)
    \/ \E s \in Sessions : WorkerWaitReturns(s)
    \/ \E s \in Sessions : ChildBind(s)
    \/ \E s \in Sessions : ChildTerminates(s)
    \/ \E s \in Sessions : ChildExits(s)
    \/ \E p \in NamedPaths, k \in Kinds : FsChange(p, k)

NamedSpec == NamedInit /\ [][NamedNext]_vars

\* The application until it quits: the lifecycle, SIGINT/SIGTERM and the
\* closing of the window.
QuitNext ==
    \/ StartServer
    \/ StopServer
    \/ StopProcessWaitReturns
    \/ StopThreadWaitReturns
    \/ DeliverStatus
    \/ DismissDialog
    \/ SignalHandler
    \/ CloseEvent
    \/ \E yes \in BOOLEAN : CloseAnswer(yes)
    \/ \E p \in UiPaths : CountOf(recent_projects, p) < MaxBrowse /\ BrowseFolder(p)
    \/ \E s \in Sessions : WorkerPopen(s)
    \/ \E s \in Sessions : WorkerAssign(s)
    \/ \E s \in Sessions : WorkerEmitStarted(s)
    \/ \E s \in Sessions : WorkerWaitReturns(s)
    \/ \E s \in Sessions : ChildBind(s)
    \/ \E s \in Sessions : ChildTerminates(s)
    \/ \E s \in Sessions : ChildExits(s)
    \/ \E p \in UiPaths, k \in {"missing", "dir"} : FsChange(p, k)

QuitSpec == Init /\ [][QuitNext]_vars

\* The window driven through its methods: stop_server() is called whether
\* or not a session is held (at most MaxStops times without one), next to
\* the handlers of the lifecycle.
ApiNext ==
    \/ StartServer
    \/ (server_thread # None \/ stops < MaxStops) /\ Stop
    \/ StopProcessWaitReturns
    \/ StopThreadWaitReturns
    \/ DeliverStatus
    \/ DismissDialog
    \/ \E p \in UiPaths : CountOf(recent_projects, p) < MaxBrowse /\ BrowseFolder(p)
    \/ \E s \in Sessions : WorkerPopen(s)
    \/ \E s \in Sessions : WorkerAssign(s)
    \/ \E s \in Sessions : WorkerEmitStarted(s)
    \/ \E s \in Sessions : WorkerWaitReturns(s)
    \/ \E s \in Sessions : ChildBind(s)
    \/ \E s \in Sessions : ChildTerminates(s)
    \/ \E s \in Sessions : ChildExits(s)
    \/ \E p \in UiPaths, k \in {"missing", "dir"} : FsChange(p, k)

ApiSpec == Init /\ [][ApiNext]_vars

\* The scheduling the platform guarantees: a started worker thread runs, a
\* child gets to bind and dies of a SIGTERM it was sent, a blocking call
\* returns once what it waits for has happened, and the event loop delivers
\* queued calls.  Nothing is assumed of the user or of the environment.
FairSpec ==
    /\ Spec
    /\ \A s \in Sessions :
        /\ WF_vars(WorkerPopen(s))
        /\ WF_vars(WorkerAssign(s))
        /\ WF_vars(WorkerEmitStarted(s))
        /\ WF_vars(WorkerWaitReturns(s))
        /\ WF_vars(ChildBind(s))
        /\ WF_vars(ChildTerminates(s))
    /\ WF_vars(StopProcessWaitReturns)
    /\ WF_vars(StopThreadWaitReturns)
    /\ WF_vars(DeliverStatus)

\* The same scheduling for a child that need not honour SIGTERM (a stopped
\* process, a handler that ignores the signal, another program found as
\* python3): terminate() only sends the signal, so nothing is assumed of when
\* the child exits.
StubbornSpec ==
    /\ Spec
    /\ \A s \in Sessions :
        /\ WF_vars(WorkerPopen(s))
        /\ WF_vars(WorkerAssign(s))
        /\ WF_vars(WorkerEmitStarted(s))
        /\ WF_vars(WorkerWaitReturns(s))
        /\ WF_vars(ChildBind(s))
    /\ WF_vars(StopProcessWaitReturns)
    /\ WF_vars(StopThreadWaitReturns)
    /\ WF_vars(DeliverStatus)

\* ------------------------------------------------------------------ claims
Unfinished(s) == thr[s].pc \notin {"none", "finished"}
InStop == ctl \in {"stop_proc_wait", "stop_thread_wait"}
Handled(s, kinds) == \E i \in 1..Len(log[s]) : log[s][i] \in kinds
NonIncreasing(r) == \A i \in 1..Len(r) - 1 : r[i][2] >= r[i + 1][2]
NoPathTwice(r) == \A i, j \in 1..Len(r) : r[i][1] = r[j][1] => i = j

\* C1: a stop() requested at any moment after start() returned eventually
\* completes: the control thread is back in its event loop, the session is
\* stopped (no handle), every worker has finished and no child is alive.
C1_StopCompletes ==
    InStop ~> (/\ ctl = "idle"
               /\ server_thread = None
               /\ \A s \in Sessions : ~Unfinished(s) /\ ~Alive(s))

\* C2: every start followed by a stop reaches a state from which the same
\* start is possible again: no child alive, the session's port not held by
\* a child, no session handle, 'start' enabled, and the checks of start pass
\* for the same directory and port when the directory is still there and no
\* other program took the port.
C2_Restartable ==
    [](InStop =>
        <>(/\ server_thread = None
           /\ start_btn
           /\ \A s \in Sessions : child[s] \notin {"spawned", "serving"}
           /\ (Exists(serve_directory) /\ server_port \notin extPorts
                 => StartChecks(serve_directory, server_port) = "ok")))

\* C3: at most one session is active: at most one worker thread is
\* unfinished, at most one child is alive, both belong to the session whose
\* handle the window holds, and 'start' is enabled only without a handle.
C3_SingleSession ==
    /\ Cardinality({s \in Sessions : Unfinished(s)}) <= 1
    /\ Cardinality({s \in Sessions : Alive(s)}) <= 1
    /\ \A s \in Sessions : Unfinished(s) \/ Alive(s) => server_thread = s
    /\ start_btn => server_thread = None

\* A second session runs while an emission of a former one is still queued.
C3_Witness ==
    \E s, t \in Sessions :
        s # t /\ server_thread = s /\ child[s] = "serving" /\ thr[s].pc = "wait" /\ Pending(t)

\* C4: the listener never handles the 'started' notification of a session
\* after it has handled a 'stopped' or 'error' notification of that session.
C4_StartedFirst ==
    [][\A s \in Sessions :
          (DeliverStatus /\ Head(mailbox).sess = s /\ Head(mailbox).kind = "started")
              => ~Handled(s, {"stopped", "error"})]_vars

\* C5: when the child of a session has exited on its own, its worker has
\* finished, no stop was requested and no notification of the session is
\* left to deliver, the listener has handled a 'stopped' or 'error'
\* notification of the session and the window no longer shows it as running.
C5_OwnExitReported ==
    \A s \in Sessions :
        (/\ server_thread = s
         /\ ctl \in {"idle", "dialog"}
         /\ child[s] = "exited"
         /\ ~sigterm[s]
         /\ thr[s].pc = "finished"
         /\ ~Pending(s))
            => (Handled(s, {"stopped", "error"}) /\ ~stop_btn)

\* C6: start() on a serve directory that does not exist or is not a directory
\* is rejected with the directory error: no worker thread is created.
C6_DirectoryChecked ==
    [][(StartServer /\ serve_directory # NoDir /\ ~IsDir(serve_directory))
          => (msg_box' = "not_exist" /\ thr' = thr /\ server_thread' = server_thread)]_vars

\* C7: a start() that is rejected (no directory selected, directory missing,
\* port taken) creates no worker and no child and leaves the session handle,
\* the recorded port and the three buttons as they were.
C7_RejectedStartChangesNothing ==
    [][(StartServer /\ (\/ serve_directory = NoDir
                        \/ ~Exists(serve_directory)
                        \/ PortHeld(port_spinbox)))
          => UNCHANGED <<server_thread, server_port, start_btn, stop_btn, open_btn,
                         thr, child>>]_vars

\* A start was rejected for its port while the spin box shows another port
\* than the recorded one.
C7_Witness ==
    msg_box = "port_in_use" /\ port_spinbox # server_port /\ server_thread = None

\* C8: each add(p) raises the count of p by one (from 0 when absent) and
\* leaves the other entries and their order alone; and after only add calls
\* from the empty store, topN(n) with n at least the number of paths, all of
\* them on disk, returns every added path once, with the number of its add
\* calls, in non-increasing order of count.
C8_AddThenTopN ==
    [][/\ \A p \in Paths :
            (fs' = fs /\ AddRecentProject(p)) =>
                /\ CountOf(recent_projects', p) = CountOf(recent_projects, p) + 1
                /\ \A q \in Paths \ {p} :
                       CountOf(recent_projects', q) = CountOf(recent_projects, q)
                /\ LET Other(e) == e[1] # p
                   IN  SelectSeq(recent_projects', Other) = SelectSeq(recent_projects, Other)
       /\ \A n \in 0..MaxN :
            (/\ fs' = fs
             /\ fromEmpty
             /\ n >= Len(recent_projects)
             /\ \A p \in Keys(recent_projects) : fs[p] # "missing"
             /\ GetSortedProjects(n))
                => /\ Keys(result') = {p \in Paths : addCalls[p] > 0}
                   /\ NoPathTwice(result')
                   /\ \A i \in 1..Len(result') : result'[i][2] = addCalls[result'[i][1]]
                   /\ NonIncreasing(result')]_vars

\* add("/a") three times and add("/b") once, then topN.
C8_Witness ==
    /\ fromEmpty
    /\ addCalls["/a"] = 3
    /\ addCalls["/b"] = 1
    /\ result = <<<<"/a", 3>>, <<"/b", 1>>>>

\* C9: after topN(n), for every n, no path that is missing on disk is left
\* in the mapping, and when an entry was dropped the file holds the mapping.
C9_NoStaleEntryLeft ==
    [][\A n \in 0..MaxN :
          (fs' = fs /\ GetSortedProjects(n)) =>
              /\ \A p \in Keys(recent_projects') : fs[p] # "missing"
              /\ recent_projects' # recent_projects => file' = JsonFile(recent_projects')]_vars

\* C10: topN(n) returns at most n entries, in non-increasing order of count,
\* no path twice, each path with its stored count, each path on disk.
C10_TopNResult ==
    [][\A n \in 0..MaxN :
          (fs' = fs /\ GetSortedProjects(n)) =>
              /\ Len(result') <= n
              /\ NonIncreasing(result')
              /\ NoPathTwice(result')
              /\ \A i \in 1..Len(result') :
                    /\ result'[i][2] = CountOf(recent_projects, result'[i][1])
                    /\ result'[i][2] > 0
                    /\ fs[result'[i][1]] # "missing"]_vars

\* topN returned fewer entries than the store holds on disk.
C10_Witness ==
    /\ Len(result) = 2
    /\ Len(recent_projects) = 3
    /\ \A p \in Paths : fs[p] # "missing"
    /\ result[1][2] > result[2][2]

C12_MalformedFileTolerated ==
    /\ kind = "dict"
    /\ raised = "none"

\* C13: in every state reached by add, topN and clear no path is a key
\* twice and every stored count is at least 1; and across every add and
\* every topN a path that is a key before and after has no smaller count after.
C13_StoreInvariants ==
    /\ [](/\ NoPathTwice(recent_projects)
          /\ \A i \in 1..Len(recent_projects) : recent_projects[i][2] >= 1)
    /\ [][(fs' = fs /\ (\/ \E p \in Paths : AddRecentProject(p)
                        \/ \E n \in 0..MaxN : GetSortedProjects(n)))
             => \A p \in Keys(recent_projects) \cap Keys(recent_projects') :
                    CountOf(recent_projects', p) >= CountOf(recent_projects, p)]_vars

\* Counts were raised by add and topN has dropped an entry that is gone.
C13_Witness ==
    /\ CountOf(recent_projects, "/a") = 3
    /\ CountOf(recent_projects, "/b") = 2
    /\ ~HasKey(recent_projects, "/started")
    /\ ~fromEmpty
    /\ Len(result) = 2

\* C14: each selection of a directory, in the browse dialog or by reusing an
\* entry of the recent list, raises the stored count of that directory by
\* exactly one (from 0 when it was absent).
C14_SelectionCounted ==
    [][/\ \A p \in UiPaths :
            BrowseFolder(p) =>
                CountOf(recent_projects', p) = CountOf(recent_projects, p) + 1
       /\ \A i \in 1..Len(recent_list) :
            (UseRecentProject(i) /\ serve_directory' = recent_list[i]) =>
                CountOf(recent_projects', recent_list[i])
                    = CountOf(recent_projects, recent_list[i]) + 1]_vars

\* The conventional names in the order of the claim, and the names of the
\* model's directories that end in .html or .htm in any letter case.
C15_Conventional == <<IndexHtml, IndexHtm, DefaultHtml, HomeHtml>>
C15_HtmlNames == {IndexHtml, IndexHtm, DefaultHtml, HomeHtml, AboutHtml, ZzzHtm, ZedUpperHtml}

\* C15: findIndexFile returns the first of index.html, index.htm,
\* default.html, home.html that is present; when none is, the smallest in
\* string order of the entries ending in .html or .htm (any letter case);
\* nothing exactly when there is neither; about.html for a directory that
\* holds only about.html and zzz.htm.
C15_IndexFilePolicy ==
    [][\A d \in UiPaths :
          CallFindIndexFile(d) =>
              LET E == Entries(d)
                  r == index_file'
                  conv == {i \in 1..4 : C15_Conventional[i] \in E}
                  html == E \cap C15_HtmlNames
              IN  /\ conv # {} =>
                        \E i \in conv : r = C15_Conventional[i] /\ \A j \in conv : i <= j
                  /\ (conv = {} /\ html # {}) =>
                        r \in html /\ \A f \in html : f = r \/ StrLess(r, f)
                  /\ r = NoName <=> (conv = {} /\ html = {})
                  /\ E = {AboutHtml, ZzzHtm} => r = AboutHtml]_vars

\* No conventional name: Zed.HTML was returned, before about.html.
C15_Witness ==
    /\ index_file = ZedUpperHtml
    /\ IsDir("/a")
    /\ {ZedUpperHtml, AboutHtml, ZzzHtm} \subseteq listing["/a"]
    /\ \A i \in 1..4 : C15_Conventional[i] \notin listing["/a"]

C17_PortProbe ==
    /\ \A s \in Sessions : child[s] = "serving" => ~IsPortAvailable(thr[s].port)
    /\ server_thread = None => \A p \in Ports \ extPorts : IsPortAvailable(p)
    /\ sockets = {}

\* A session was reported started and its stop() has completed, while
\* another program holds the other port.
C17_Witness ==
    /\ info_text = "active"
    /\ server_thread = None
    /\ start_btn /\ ~stop_btn
    /\ \A s \in Sessions : child[s] = "none"
    /\ server_port = DefaultPort
    /\ extPorts = {DefaultPort + 1}

\* C18: when the 'started' notification of the session the window holds is
\* handled, an automatic open-URL request is issued whose port is the port
\* of that session and whose file is findIndexFile of the directory of that
\* session (no file when it returns nothing).
C18_OpenUrlOfSession ==
    [][\A s \in Sessions :
          (/\ DeliverStatus
           /\ Head(mailbox).sess = s
           /\ Head(mailbox).kind = "started"
           /\ server_thread = s)
              => /\ browser'.auto
                 /\ browser'.port = thr[s].port
                 /\ browser'.file = FindIndexFile(Entries(thr[s].directory))]_vars

\* C19: no call of the store lets an exception of the history file escape,
\* whatever the file held at the start and whether or not it can be written;
\* browse and clear have their in-memory effect and refresh the list with
\* the file untouched when the write fails; neither they nor the file
\* becoming unwritable or writable change the session, the buttons or the
\* recorded port; and a start is accepted exactly when a directory is
\* selected and exists and the port is free.
C19_PersistenceFailuresSwallowed ==
    [][/\ raised = "none" /\ raised' = "none"
       /\ \A p \in UiPaths :
            (fs' = fs /\ writable' = writable /\ BrowseFolder(p)) =>
                /\ serve_directory' = p
                /\ CountOf(recent_projects', p) = CountOf(recent_projects, p) + 1
                /\ \E i \in 1..Len(recent_list') : recent_list'[i] = p
                /\ ~writable => file' = file
                /\ UNCHANGED <<server_thread, server_port, start_btn, stop_btn,
                               open_btn, thrVars>>
       /\ (fs' = fs /\ writable' = writable /\ afterClear' # "no" /\ ClearHistory) =>
                /\ recent_projects' = <<>> /\ recent_list' = <<>>
                /\ ~writable => file' = file
                /\ UNCHANGED <<server_thread, server_port, start_btn, stop_btn,
                               open_btn, thrVars>>
       /\ writable' # writable =>
                UNCHANGED <<server_thread, server_port, start_btn, stop_btn,
                            open_btn, thrVars, recent_projects, recent_list, file>>
       /\ (fs' = fs /\ writable' = writable /\ StartServer) =>
                (server_thread' # None <=>
                    /\ serve_directory # NoDir /\ Exists(serve_directory)
                    /\ ~PortHeld(port_spinbox))]_vars

\* The file was unparseable at the start and cannot be written; two
\* selections were counted and a session serves.
C19_Witness ==
    /\ ~writable
    /\ file = CorruptFile
    /\ CountOf(recent_projects, "/a") = 2
    /\ recent_list = <<"/a">>
    /\ \E s \in Sessions : server_thread = s /\ child[s] = "serving"

\* C20: no step of a worker thread changes a variable the control thread
\* reads (the fields of the window, the store, the fields of the session
\* with its process handle): a worker only queues notifications; and the
\* control thread, when it stops a session, never finds the process handle
\* unset while the child of the session exists.
C20_WorkerWritesNothingShared ==
    [][/\ \A s \in Sessions :
            (\/ WorkerPopen(s) \/ WorkerAssign(s)
             \/ WorkerEmitStarted(s) \/ WorkerWaitReturns(s))
                => /\ thr'[s].server_process = thr[s].server_process
                   /\ thr'[s].directory = thr[s].directory
                   /\ thr'[s].port = thr[s].port
                   /\ UNCHANGED <<uiVars, storeVars>>
       /\ (StopServer /\ server_thread # None)
                => (Alive(server_thread) => thr[server_thread].server_process)]_vars

\* C21: a stop() that has asked the child to terminate and waits for its
\* exit completes, whether or not the child honours the request: the control
\* thread is back in its event loop with no session handle, and the child of
\* the stopped session is not alive.
C21_StopEscalates ==
    (ctl = "stop_proc_wait") ~>
        (/\ ctl = "idle"
         /\ server_thread = None
         /\ \A s \in Sessions : ~Alive(s))

\* C22: stop() called while no session handle is held (before any start, or
\* after a stop has completed) changes nothing of the window, of the
\* sessions, their children, signals and notifications, of the store or of
\* the environment: nothing is signalled, nothing is waited for, nothing is
\* emitted, the handle stays absent; so a second stop() leaves the state of
\* the first.
C22_StopWithoutSession ==
    [][(Stop /\ server_thread = None)
          => UNCHANGED <<uiVars, thrVars, storeVars, inspVars, envVars, exiting>>]_vars

\* A session was started, reported and stopped, and stop() was then called
\* twice more.
C22_Witness ==
    /\ stops = 2
    /\ info_text = "active"
    /\ server_thread = None
    /\ ctl = "idle"
    /\ \A s \in Sessions : thr[s].pc = "none" /\ log[s] = <<>>
    /\ mailbox = <<>>

\* C23: whenever a worker emits the 'started' notification of its session,
\* the child of the session is alive: a child that has already exited (it
\* could not bind its port, or ended on its own) gets no 'started'.
C23_StartedOnlyIfAlive ==
    [][\A s \in Sessions : WorkerEmitStarted(s) => Alive(s)]_vars

\* The notifications of session s of these kinds, queued or handled.
C24_Count(s, kinds) ==
    Cardinality({i \in 1..Len(mailbox) : mailbox[i].sess = s /\ mailbox[i].kind \in kinds})
    + Cardinality({i \in 1..Len(log[s]) : log[s][i] \in kinds})
C24_CreationFailed(s) == thr[s].pc = "finished" /\ child[s] = "none"

\* C24: when subprocess.Popen raises, the worker finishes at once with no
\* child and one queued 'error' notification; a session whose creation
\* failed has exactly one 'error' and no 'started' notification, queued or
\* handled; a stop() of it signals nothing and finds the worker finished, so
\* neither of its waits blocks; and when stop() has returned no handle is
\* held and 'start' is enabled.
C24_SpawnErrorReported ==
    /\ [](\A s \in Sessions :
            C24_CreationFailed(s) =>
                /\ C24_Count(s, {"error"}) = 1
                /\ C24_Count(s, {"started"}) = 0
                /\ ~Alive(s))
    /\ [][/\ \A s \in Sessions :
               (WorkerPopen(s) /\ child'[s] = "none") =>
                   /\ thr'[s].pc = "finished"
                   /\ mailbox' = Append(mailbox, mailbox'[Len(mailbox')])
                   /\ mailbox'[Len(mailbox')].kind = "error"
                   /\ mailbox'[Len(mailbox')].sess = s
          /\ (StopServer /\ server_thread # None /\ C24_CreationFailed(server_thread)) =>
                   /\ ctl' = "stop_thread_wait"
                   /\ sigterm' = sigterm
                   /\ thr'[server_thread].pc = "finished"
          /\ StopThreadWaitReturns =>
                   /\ ctl' = "idle"
                   /\ server_thread' = None
                   /\ start_btn']_vars

\* Creation failed, the session was stopped and its 'error' notification
\* is still queued; 'start' is enabled again.
C24_Witness ==
    /\ server_thread = None
    /\ ctl = "idle"
    /\ start_btn
    /\ Len(mailbox) = 1
    /\ mailbox[1].kind = "error"
    /\ \A s \in Sessions : thr[s].pc = "none"

\* C25: topN(n) returns min(n, k) entries, k being the number of stored
\* entries whose path is on disk, and no stored entry on disk that is left
\* out has a higher count than an entry returned.
C25_TopNOfExisting ==
    [][\A n \in 0..MaxN :
          (fs' = fs /\ kind = "dict" /\ GetSortedProjects(n)) =>
              LET existing == {p \in Keys(recent_projects) : fs[p] # "missing"}
                  k == Cardinality(existing)
                  returned == {result'[i][1] : i \in 1..Len(result')}
              IN  /\ Len(result') = IF n < k THEN n ELSE k
                  /\ \A p \in existing \ returned, q \in returned :
                         CountOf(recent_projects, p) <= CountOf(recent_projects, q)]_vars

\* C26: a name returned by findIndexFile(d) is the name of a regular file
\* directly inside d, never that of a subdirectory of d.
C26_IndexIsRegularFile ==
    [][\A d \in UiPaths :
          (CallFindIndexFile(d) /\ index_file' # NoName)
              => index_file' \in listing[d] \ subdirs[d]]_vars

\* C27: the listener, handling an 'error' notification, neither shows the
\* session as running nor issues an open-URL request, whatever the text of
\* the error.
C27_ErrorNeverShownAsStart ==
    [][(DeliverStatus /\ Head(mailbox).kind = "error")
          => UNCHANGED <<info_text, browser>>]_vars

\* C28: whenever the control thread is in an event loop (between handlers,
\* or inside a message box), 'start' is enabled exactly when no session
\* handle is held, and 'stop' and 'open browser' exactly when one is held.
C28_ButtonsFollowHandle ==
    ctl \in {"idle", "dialog"} =>
        /\ start_btn <=> server_thread = None
        /\ stop_btn <=> server_thread # None
        /\ open_btn <=> server_thread # None

\* A session was started, reported as started and stopped, and a start was
\* then rejected for its port.
C28_Witness ==
    /\ info_text = "active"
    /\ server_thread = None
    /\ msg_box = "port_in_use"
    /\ start_btn /\ ~stop_btn /\ ~open_btn
    /\ \A s \in Sessions : thr[s].pc = "none"

\* C29: while writes of the history file succeed, in every state between
\* calls of the store a fresh load of the file gives the mapping held in
\* memory, items and order, so a restart finds the same history; and a
\* topN(n) that drops no entry leaves the mapping and the file as they were.
C29_FileMirrorsMemory ==
    /\ [](/\ LoadRecentProjects(file) = recent_projects
          /\ LoadedType(file) = kind)
    /\ [][\A n \in 0..MaxN :
             (fs' = fs /\ GetSortedProjects(n) /\ Len(recent_projects') = Len(recent_projects))
                 => UNCHANGED <<recent_projects, file>>]_vars

\* Counts were raised by add, topN has dropped an entry that is gone, and
\* the file holds what is left.
C29_Witness ==
    /\ recent_projects = <<<<"/b", 2>>, <<"/a", 3>>>>
    /\ file = JsonFile(recent_projects)
    /\ file.data[2][2] = <<3>>
    /\ ~fromEmpty
    /\ fs["/started"] = "missing"

\* C30: when the application quits after the handler of SIGINT/SIGTERM has
\* run, or after a window close that was accepted without a question or in
\* which the user confirmed stopping the server, no child server process is
\* alive.
C30_NoChildOutlivesQuit ==
    (ctl = "quit" /\ exiting \in {"signal", "close", "close_stop"})
        => \A s \in Sessions : ~Alive(s)

\* The window was closed while a session was shown as running, the user
\* confirmed, and stop_server has returned.
C30_Witness ==
    /\ ctl = "quit"
    /\ exiting = "close_stop"
    /\ info_text = "active"
    /\ server_thread = None
    /\ \A s \in Sessions : child[s] = "none"

====
